---- MODULE Spec2Model ----
(***************************************************************************)
(* Conversation persistence of Fundamentals_level_3/chat_2.py: the JSON    *)
(* store (save_conversation, load_conversation, list_conversations), the   *)
(* menu (select_conversation), the exchange loop (chat_loop) and main.     *)
(* Instances of the program (Procs) share one conversations directory.  A  *)
(* file is the sequence of JSON tokens written so far, so a write that     *)
(* stops part-way leaves a prefix on disk.  The loop of chat.py, which     *)
(* keeps its log in memory only, is modelled beside that of chat_2.py.     *)
(*                                                                         *)
(*   Spec          one instance on an empty directory                      *)
(*   SpecTwo       two instances at once on an empty directory             *)
(*   SpecStore     a directory found with records in it, some damaged      *)
(*   SpecCatalog   the menu over a directory of up to six records          *)
(*   SpecPrograms  one instance running chat_2.py or chat.py               *)
(*   SpecSession   one chat_loop, with the fairness its loop provides      *)
(***************************************************************************)
EXTENDS Integers, Sequences, FiniteSets, TLC

\* ---------------------------------------------------------------- bounds
MaxTime == 1
MaxTurns == 2

Procs == {"p1", "p2", "p3"}
Ids == {"a1", "b2"}
Responses == {"Hello!"}

\* -------------------------------------------------- what the operator types
Lines == {"Hi", "quit", "clear", "exit", "EXIT", " exit ", "history", "History", "", "  "}
\* the lines of the operator of each instance; those of p2 and p3 type fewer
Typed(p) == IF p = "p1" THEN Lines ELSE Lines \ {"quit", "clear"}

\* str.strip()
strip(line) ==
    CASE line = " exit " -> "exit"
      [] line = "  " -> ""
      [] OTHER -> line
\* a lower() that leaves the letters as they are
lowerKeepsCase(text) == text

\* str.lower()
lower(text) ==
    CASE text = "EXIT" -> "exit"
      [] text = "History" -> "history"
      [] text = "Hi" -> "hi"
      [] OTHER -> text

\* chat_loop, lines 187-205: what a line is taken for
Command(line) ==
    IF lower(strip(line)) = "exit" THEN "exit"
    ELSE IF lower(strip(line)) = "history" THEN "history"
    ELSE IF strip(line) = "" THEN "empty"
    ELSE "message"
\* the operator of p has a line that is taken for c
Types(p, c) == {line \in Typed(p) : Command(line) = c} # {}
\* the user_input values that reach the Completion Client
Inputs == {strip(line) : line \in {l \in Lines : Command(l) = "message"}}

VARIABLES
    store,             \* the conversations directory: id -> file
    now,               \* datetime.now()
    pc,                \* where each program instance is
    conversations,     \* select_conversation: the list the menu displayed
    conversation_id,   \* chat_loop argument
    messages,          \* chat_loop: the in-memory log
    metadata,          \* chat_loop argument
    conversation_data, \* save_conversation: the record being written
    log_before,        \* the in-memory log when the turn in progress began
    out,               \* the last outcome printed to the operator
    overwritten,       \* what the record held when the save in progress opened it
    budget,            \* turns begun and turns saved so far, over all instances
    printed            \* display_conversation_menu: what the menu on screen shows

vars == <<store, now, pc, conversations, conversation_id, messages, metadata,
          conversation_data, log_before, out, overwritten, budget, printed>>

\* ------------------------------------------------------------ JSON values
JNull == [t |-> "null", s |-> "", n |-> 0, a |-> <<>>]
JStr(x) == [t |-> "str", s |-> x, n |-> 0, a |-> <<>>]
JNum(k) == [t |-> "num", s |-> "", n |-> k, a |-> <<>>]
JArr(q) == [t |-> "arr", s |-> "", n |-> 0, a |-> q]
\* datetime.isoformat(): a string whose order is the order of the instants
isoformat(tm) == [t |-> "str", s |-> "T", n |-> tm, a |-> <<>>]

Token(k, v) == [key |-> k, val |-> v]
OpenBrace == Token("{", JNull)
CloseBrace == Token("}", JNull)

\* A Python dict is the sequence of its items in insertion order.
HasKey(d, k) == \E i \in DOMAIN d : d[i].key = k
Get(d, k) == d[CHOOSE i \in DOMAIN d : d[i].key = k].val
\* dict.get(k): None when the key is missing
DictGet(d, k) == IF HasKey(d, k) THEN Get(d, k) ELSE JNull

\* json.dump(data, f): the tokens of the object, in order
json_dump(data) == <<OpenBrace>> \o data \o <<CloseBrace>>

\* json.load(f): the dict, or JSONDecodeError on anything but a whole object
JSONDecodeError == <<Token("JSONDecodeError", JNull)>>
WellFormed(content) ==
    /\ Len(content) >= 2
    /\ content[1] = OpenBrace
    /\ content[Len(content)] = CloseBrace
    /\ \A i \in 2..(Len(content) - 1) : content[i].key \notin {"{", "}"}
json_load(content) ==
    IF WellFormed(content) THEN SubSeq(content, 2, Len(content) - 1)
    ELSE JSONDecodeError

\* ------------------------------------------------------------- the store
NoFile == [exists |-> FALSE, content |-> <<>>]
File(content) == [exists |-> TRUE, content |-> content]

\* the dicts appended to messages (lines 215-218 and 243-246): role and
\* content; user_message and assistant_message, built with a timestamp on
\* lines 208-212 and 237-241, are not used
UserMsg(u) == [role |-> "user", content |-> u]
AssistantMsg(r) == [role |-> "assistant", content |-> r]

\* What save_conversation reads of the metadata dict: whether it is non-empty
\* and metadata.get("created_at")
Metadata(d) == [truthy |-> d # <<>>, created_at |-> DictGet(d, "created_at")]
NoMetadata == Metadata(<<>>)

\* a record whose message_count is one short of its messages
ConversationDataMiscounted(id, msgs, md, tm) ==
    << Token("conversation_id", JStr(id)),
       Token("created_at", IF md.truthy THEN md.created_at ELSE isoformat(tm)),
       Token("last_updated", isoformat(tm)),
       Token("message_count", JNum(Len(msgs) - 1)),
       Token("messages", JArr(msgs)) >>

\* a record that takes its created_at from the clock at every save
ConversationDataRestamped(id, msgs, md, tm) ==
    << Token("conversation_id", JStr(id)),
       Token("created_at", isoformat(tm)),
       Token("last_updated", isoformat(tm)),
       Token("message_count", JNum(Len(msgs))),
       Token("messages", JArr(msgs)) >>

\* a record whose last_updated stays what created_at is
ConversationDataNotRefreshed(id, msgs, md, tm) ==
    << Token("conversation_id", JStr(id)),
       Token("created_at", IF md.truthy THEN md.created_at ELSE isoformat(tm)),
       Token("last_updated", IF md.truthy THEN md.created_at ELSE isoformat(tm)),
       Token("message_count", JNum(Len(msgs))),
       Token("messages", JArr(msgs)) >>

\* save_conversation, lines 38-44: the record built before the file is opened
ConversationData(id, msgs, md, tm) ==
    << Token("conversation_id", JStr(id)),
       Token("created_at", IF md.truthy THEN md.created_at ELSE isoformat(tm)),
       Token("last_updated", isoformat(tm)),
       Token("message_count", JNum(Len(msgs))),
       Token("messages", JArr(msgs)) >>

\* open(filename, "w"): the file of that id exists and is empty
OpenForWrite(st, id) == [st EXCEPT ![id] = File(<<>>)]
\* the first k tokens of json.dump reach the file
WriteTokens(st, id, data, k) == [st EXCEPT ![id] = File(SubSeq(json_dump(data), 1, k))]

\* load_conversation: (messages, data), (None, None), or an exception
LoadResult(kind, msgs, data) == [kind |-> kind, messages |-> msgs, data |-> data]
load_conversation(st, id) ==
    IF ~st[id].exists THEN LoadResult("none", <<>>, <<>>)
    ELSE LET data == json_load(st[id].content) IN
         IF data = JSONDecodeError THEN LoadResult("JSONDecodeError", <<>>, <<>>)
         ELSE IF ~HasKey(data, "messages") THEN LoadResult("KeyError", <<>>, <<>>)
         ELSE LoadResult("ok", Get(data, "messages").a, data)

\* no save in progress
NotOpened == LoadResult("", <<>>, <<>>)
\* no menu on screen
NoMenu == [glob |-> <<>>, shown |-> <<>>, more |-> 0]

\* list_conversations, lines 70-81: one summary per file that parses and has
\* the four fields; any exception skips the file
SummaryKeys == {"conversation_id", "created_at", "last_updated", "message_count"}
Summary(data) == [id |-> Get(data, "conversation_id"),
                  created |-> Get(data, "created_at"),
                  updated |-> Get(data, "last_updated"),
                  messages |-> Get(data, "message_count")]
Listable(file) ==
    /\ file.exists
    /\ json_load(file.content) # JSONDecodeError
    /\ \A k \in SummaryKeys : HasKey(json_load(file.content), k)

RECURSIVE Collect(_, _)
Collect(st, order) ==
    IF order = <<>> THEN <<>>
    ELSE LET file == st[Head(order)]
             rest == Collect(st, Tail(order))
         IN IF Listable(file) THEN <<Summary(json_load(file.content))>> \o rest
            ELSE rest

\* an insertion that puts a summary ahead of those with the same key
RECURSIVE InsertDescTiesFirst(_, _)
InsertDescTiesFirst(sorted, x) ==
    IF sorted = <<>> THEN <<x>>
    ELSE IF Head(sorted).updated.n <= x.updated.n THEN <<x>> \o sorted
    ELSE <<Head(sorted)>> \o InsertDescTiesFirst(Tail(sorted), x)

\* list.sort(key=updated, reverse=True): stable, so equal keys keep their order
RECURSIVE InsertDesc(_, _)
InsertDesc(sorted, x) ==
    IF sorted = <<>> THEN <<x>>
    ELSE IF Head(sorted).updated.n < x.updated.n THEN <<x>> \o sorted
    ELSE <<Head(sorted)>> \o InsertDesc(Tail(sorted), x)
RECURSIVE SortDesc(_)
SortDesc(q) ==
    IF q = <<>> THEN <<>>
    ELSE InsertDesc(SortDesc(SubSeq(q, 1, Len(q) - 1)), q[Len(q)])

\* comparing the keys raises TypeError unless both are strings
SortRaises(q) == Len(q) >= 2 /\ \E i \in DOMAIN q : q[i].updated.t # "str"

ListResult(ok, list) == [ok |-> ok, list |-> list]
list_conversations(st, order) ==
    LET found == Collect(st, order) IN
    IF SortRaises(found) THEN ListResult(FALSE, <<>>)
    ELSE ListResult(TRUE, SortDesc(found))

\* Path.glob: the existing files, in an order the file system chooses
RECURSIVE Orders(_)
Orders(S) ==
    IF S = {} THEN {<<>>}
    ELSE UNION {{<<x>> \o q : q \in Orders(S \ {x})} : x \in S}
Enumerations(st) == Orders({id \in DOMAIN st : st[id].exists})

\* ------------------------------------------------------------------ Init
InitAt(at, stores) ==
    /\ store \in stores
    /\ now = 0
    /\ pc = at
    /\ conversations = [p \in Procs |-> <<>>]
    /\ conversation_id = [p \in Procs |-> ""]
    /\ messages = [p \in Procs |-> <<>>]
    /\ metadata = [p \in Procs |-> NoMetadata]
    /\ conversation_data = [p \in Procs |-> <<>>]
    /\ log_before = [p \in Procs |-> <<>>]
    /\ out = [p \in Procs |-> ""]
    /\ overwritten = [p \in Procs |-> NotOpened]
    /\ budget = [turns |-> 0, saved |-> 0]
    /\ printed = [p \in Procs |-> NoMenu]

\* the instances in started are at the menu of chat_2.py
InitWith(started, stores) ==
    InitAt([p \in Procs |-> IF p \in started THEN "menu" ELSE "off"], stores)

\* datetime.now() moves on
Tick ==
    /\ now < MaxTime
    /\ now' = now + 1
    /\ UNCHANGED <<store, pc, conversations, conversation_id, messages, metadata,
                   conversation_data, log_before, out, overwritten, budget, printed>>

\* --------------------------------------------------- select_conversation
MenuLimit == 5
Min(a, b) == IF a <= b THEN a ELSE b

\* datetime.fromisoformat raises TypeError on a value that is not a string
DisplayRaises(list) ==
    \E i \in 1..Min(MenuLimit, Len(list)) :
        list[i].created.t # "str" \/ list[i].updated.t # "str"

\* lines 98-108: the entries printed, and the count behind "... and N more"
Shown(list) == SubSeq(list, 1, Min(MenuLimit, Len(list)))
More(list) == IF Len(list) > MenuLimit THEN Len(list) - MenuLimit ELSE 0
Printed(order, list) == [glob |-> order, shown |-> Shown(list), more |-> More(list)]

\* display_conversation_menu: list the store and print the menu
Menu(p) ==
    /\ pc[p] = "menu"
    /\ \E order \in Enumerations(store) :
        LET r == list_conversations(store, order) IN
        IF r.ok /\ ~DisplayRaises(r.list)
        THEN /\ conversations' = [conversations EXCEPT ![p] = r.list]
             /\ printed' = [printed EXCEPT ![p] = Printed(order, r.list)]
             /\ pc' = [pc EXCEPT ![p] = "select"]
             /\ out' = [out EXCEPT ![p] = "menu"]
        ELSE /\ conversations' = conversations
             /\ printed' = printed
             /\ pc' = [pc EXCEPT ![p] = "crashed"]
             /\ out' = [out EXCEPT ![p] = "TypeError"]
    /\ UNCHANGED <<store, now, conversation_id, messages, metadata,
                   conversation_data, log_before, overwritten, budget>>

\* choice "0"
SelectExit(p) ==
    /\ pc[p] = "select"
    /\ pc' = [pc EXCEPT ![p] = "done"]
    /\ out' = [out EXCEPT ![p] = "bye"]
    /\ conversations' = [conversations EXCEPT ![p] = <<>>]
    /\ printed' = [printed EXCEPT ![p] = NoMenu]
    /\ UNCHANGED <<store, now, conversation_id, messages, metadata,
                   conversation_data, log_before, overwritten, budget>>

\* int(choice) raises ValueError
SelectNotNumber(p) ==
    /\ pc[p] = "select"
    /\ out' = [out EXCEPT ![p] = "invalid_number"]
    /\ UNCHANGED <<store, now, pc, conversations, conversation_id, messages,
                   metadata, conversation_data, log_before, overwritten, budget, printed>>

\* generate_conversation_id: eight hex digits of a random uuid4
generate_conversation_id == Ids

\* choice len(conversations) + 1
SelectNew(p) ==
    /\ pc[p] = "select"
    /\ \E id \in generate_conversation_id :
        conversation_id' = [conversation_id EXCEPT ![p] = id]
    /\ messages' = [messages EXCEPT ![p] = <<>>]
    /\ metadata' = [metadata EXCEPT ![p] =
                      Metadata(<<Token("created_at", isoformat(now))>>)]
    /\ pc' = [pc EXCEPT ![p] = "input"]
    /\ out' = [out EXCEPT ![p] = "new"]
    /\ conversations' = [conversations EXCEPT ![p] = <<>>]
    /\ printed' = [printed EXCEPT ![p] = NoMenu]
    /\ UNCHANGED <<store, now, conversation_data, log_before, overwritten, budget>>

\* the outcome select_conversation prints for what load_conversation gave
SelectOutcome(kind) ==
    CASE kind = "ok" -> "resumed"
      [] kind = "none" -> "invalid_choice"
      [] kind = "JSONDecodeError" -> "invalid_number"
      [] OTHER -> kind

\* choice n with 1 <= n <= min(5, len(conversations))
ResumeChoice(p, n) ==
    /\ pc[p] = "select"
    /\ 1 <= n /\ n <= Min(MenuLimit, Len(conversations[p]))
    /\  LET conv == conversations[p][n]
            r == load_conversation(store, conv.id.s)
        IN /\ out' = [out EXCEPT ![p] = SelectOutcome(r.kind)]
           /\ IF r.kind = "ok"
              THEN /\ conversation_id' = [conversation_id EXCEPT ![p] = conv.id.s]
                   /\ messages' = [messages EXCEPT ![p] = r.messages]
                   /\ metadata' = [metadata EXCEPT ![p] = Metadata(r.data)]
                   /\ conversations' = [conversations EXCEPT ![p] = <<>>]
                   /\ printed' = [printed EXCEPT ![p] = NoMenu]
                   /\ pc' = [pc EXCEPT ![p] = "input"]
              ELSE /\ UNCHANGED <<conversation_id, messages, metadata>>
                   /\ conversations' = [conversations EXCEPT ![p] =
                         IF r.kind = "KeyError" THEN <<>> ELSE @]
                   /\ printed' = [printed EXCEPT ![p] =
                         IF r.kind = "KeyError" THEN NoMenu ELSE @]
                   /\ pc' = [pc EXCEPT ![p] =
                         IF r.kind = "KeyError" THEN "crashed" ELSE "select"]
    /\ UNCHANGED <<store, now, conversation_data, log_before, overwritten, budget>>

SelectResume(p) == \E n \in 1..MenuLimit : ResumeChoice(p, n)

\* what the operator types at "Select an option (number)"
Choices == {"0", "00", "1", "2", "3", "4", "5", "6", "7", "8", "x"}
\* int(choice) raises ValueError
NotNumber(text) == text = "x"
\* int(choice)
int(text) ==
    CASE text \in {"0", "00"} -> 0
      [] text = "1" -> 1 [] text = "2" -> 2 [] text = "3" -> 3 [] text = "4" -> 4
      [] text = "5" -> 5 [] text = "6" -> 6 [] text = "7" -> 7 [] text = "8" -> 8

\* any other number
SelectInvalid(p) ==
    /\ pc[p] = "select"
    /\ \E n \in 1..(Len(conversations[p]) + 2) :
        /\ n # Len(conversations[p]) + 1
        /\ ~(1 <= n /\ n <= Min(MenuLimit, Len(conversations[p])))
    /\ out' = [out EXCEPT ![p] = "invalid_choice"]
    /\ UNCHANGED <<store, now, pc, conversations, conversation_id, messages,
                   metadata, conversation_data, log_before, overwritten, budget, printed>>

\* lines 128-160: one choice, whatever it is
Choice(p, text) ==
    \/ text = "0" /\ SelectExit(p)
    \/ text # "0" /\ NotNumber(text) /\ SelectNotNumber(p)
    \/ /\ text # "0" /\ ~NotNumber(text)
       /\ \/ int(text) = Len(conversations[p]) + 1 /\ SelectNew(p)
          \/ int(text) # Len(conversations[p]) + 1 /\ ResumeChoice(p, int(text))
          \/ /\ int(text) # Len(conversations[p]) + 1
             /\ ~(1 <= int(text) /\ int(text) <= Min(MenuLimit, Len(conversations[p])))
             /\ SelectInvalid(p)

\* -------------------------------------------------------------- chat_loop
\* an exit that writes the log to the record before it leaves
ExitSaves(p) ==
    /\ pc[p] = "input"
    /\ Types(p, "exit")
    /\ LET data == ConversationData(conversation_id[p], messages[p], metadata[p], now)
       IN store' = WriteTokens(store, conversation_id[p], data, Len(json_dump(data)))
    /\ pc' = [pc EXCEPT ![p] = "another"]
    /\ out' = [out EXCEPT ![p] = "exit"]
    /\ UNCHANGED <<now, conversations, conversation_id, messages, metadata,
                   conversation_data, log_before, overwritten, budget, printed>>

\* input 'exit'
Exit(p) ==
    /\ pc[p] = "input"
    /\ Types(p, "exit")
    /\ pc' = [pc EXCEPT ![p] = "another"]
    /\ out' = [out EXCEPT ![p] = "exit"]
    /\ UNCHANGED <<store, now, conversations, conversation_id, messages, metadata,
                   conversation_data, log_before, overwritten, budget, printed>>

\* input 'history'
History(p) ==
    /\ pc[p] = "input"
    /\ Types(p, "history")
    /\ out' = [out EXCEPT ![p] = "history"]
    /\ UNCHANGED <<store, now, pc, conversations, conversation_id, messages,
                   metadata, conversation_data, log_before, overwritten, budget, printed>>

\* empty input
EmptyInput(p) ==
    /\ pc[p] = "input"
    /\ Types(p, "empty")
    /\ UNCHANGED vars

\* lines 207-230: append the user message and call the Completion Client
Say(p, line) ==
    /\ pc[p] = "input"
    /\ Command(line) = "message"
    /\ budget.turns < MaxTurns
    /\ messages' = [messages EXCEPT ![p] = Append(messages[p], UserMsg(strip(line)))]
    /\ log_before' = [log_before EXCEPT ![p] = messages[p]]
    /\ pc' = [pc EXCEPT ![p] = "invoke"]
    /\ out' = [out EXCEPT ![p] = "claude"]
    /\ budget' = [budget EXCEPT !.turns = @ + 1]
    /\ UNCHANGED <<store, now, conversations, conversation_id, metadata,
                   conversation_data, overwritten, printed>>

Turn(p) == \E line \in Typed(p) : Say(p, line)

\* lines 187-218: one line of input, whatever it is
ReadLine(p, line) ==
    \/ Command(line) = "exit" /\ Exit(p)
    \/ Command(line) = "history" /\ History(p)
    \/ Command(line) = "empty" /\ EmptyInput(p)
    \/ Say(p, line)

\* a handler that leaves the unanswered user message in the log
ExceptHandlerKeepsUser(msgs) == msgs

\* a handler that drops the last message whatever its role
ExceptHandlerPopsAny(msgs) ==
    IF msgs # <<>> THEN SubSeq(msgs, 1, Len(msgs) - 1) ELSE msgs

\* lines 256-263: the except clause of the turn
ExceptHandler(msgs) ==
    IF msgs # <<>> /\ msgs[Len(msgs)].role = "user"
    THEN SubSeq(msgs, 1, Len(msgs) - 1)
    ELSE msgs

\* a failure of the call that nothing catches
InvokeFailFatal(p) ==
    /\ pc[p] = "invoke"
    /\ pc' = [pc EXCEPT ![p] = "crashed"]
    /\ out' = [out EXCEPT ![p] = "error"]
    /\ UNCHANGED <<store, now, conversations, conversation_id, messages, metadata,
                   conversation_data, log_before, overwritten, budget, printed>>

\* the Completion Client call, or reading its response, raises
InvokeFail(p) ==
    /\ pc[p] = "invoke"
    /\ messages' = [messages EXCEPT ![p] = ExceptHandler(messages[p])]
    /\ pc' = [pc EXCEPT ![p] = "input"]
    /\ out' = [out EXCEPT ![p] = "error"]
    /\ log_before' = [log_before EXCEPT ![p] = <<>>]
    /\ UNCHANGED <<store, now, conversations, conversation_id, metadata,
                   conversation_data, overwritten, budget, printed>>

\* a turn whose response never reaches the log
WithResponseLost(msgs, r) == msgs

\* lines 233-246: the assistant message joins the log
WithResponse(msgs, r) == Append(msgs, AssistantMsg(r))

\* the call returns r; save_conversation builds the record and opens the file,
\* which empties it
InvokeOk(p) ==
    /\ pc[p] = "invoke"
    /\ \E r \in Responses :
        /\ messages' = [messages EXCEPT ![p] = WithResponse(messages[p], r)]
        /\ conversation_data' = [conversation_data EXCEPT ![p] =
              ConversationData(conversation_id[p], WithResponse(messages[p], r),
                               metadata[p], now)]
    /\ overwritten' = [overwritten EXCEPT ![p] =
                          load_conversation(store, conversation_id[p])]
    /\ store' = OpenForWrite(store, conversation_id[p])
    /\ pc' = [pc EXCEPT ![p] = "write"]
    /\ UNCHANGED <<now, conversations, conversation_id, metadata, log_before, out, budget, printed>>

\* the call returns r; save_conversation cannot create the directory or open
\* the file (OSError), and the except clause of the turn runs
InvokeOkOpenFails(p) ==
    /\ pc[p] = "invoke"
    /\ \E r \in Responses :
        messages' = [messages EXCEPT ![p] =
                        ExceptHandler(WithResponse(messages[p], r))]
    /\ pc' = [pc EXCEPT ![p] = "input"]
    /\ out' = [out EXCEPT ![p] = "error"]
    /\ log_before' = [log_before EXCEPT ![p] = <<>>]
    /\ UNCHANGED <<store, now, conversations, conversation_id, metadata,
                   conversation_data, overwritten, budget, printed>>

\* json.dump and close complete: "[Auto-saved]"
WriteOk(p) ==
    /\ pc[p] = "write"
    /\ store' = WriteTokens(store, conversation_id[p], conversation_data[p],
                            Len(json_dump(conversation_data[p])))
    /\ conversation_data' = [conversation_data EXCEPT ![p] = <<>>]
    /\ pc' = [pc EXCEPT ![p] = "input"]
    /\ out' = [out EXCEPT ![p] = "saved"]
    /\ log_before' = [log_before EXCEPT ![p] = <<>>]
    /\ overwritten' = [overwritten EXCEPT ![p] = NotOpened]
    /\ budget' = [budget EXCEPT !.saved = @ + 1]
    /\ UNCHANGED <<now, conversations, conversation_id, messages, metadata, printed>>

\* json.dump or close raises after k tokens reached the file (disk full, a
\* string that cannot be encoded); the except clause of the turn runs
WriteFail(p) ==
    /\ pc[p] = "write"
    /\ \E k \in 0..(Len(json_dump(conversation_data[p])) - 1) :
        store' = WriteTokens(store, conversation_id[p], conversation_data[p], k)
    /\ messages' = [messages EXCEPT ![p] = ExceptHandler(messages[p])]
    /\ conversation_data' = [conversation_data EXCEPT ![p] = <<>>]
    /\ pc' = [pc EXCEPT ![p] = "input"]
    /\ out' = [out EXCEPT ![p] = "error"]
    /\ log_before' = [log_before EXCEPT ![p] = <<>>]
    /\ overwritten' = [overwritten EXCEPT ![p] = NotOpened]
    /\ UNCHANGED <<now, conversations, conversation_id, metadata, budget, printed>>

\* ------------------------------------------------------------------- main
\* "Open another conversation?" answered yes: the loop of main calls
\* select_conversation again and its result replaces the session's variables
AnotherYes(p) ==
    /\ pc[p] = "another"
    /\ pc' = [pc EXCEPT ![p] = "menu"]
    /\ conversation_id' = [conversation_id EXCEPT ![p] = ""]
    /\ messages' = [messages EXCEPT ![p] = <<>>]
    /\ metadata' = [metadata EXCEPT ![p] = NoMetadata]
    /\ UNCHANGED <<store, now, conversations, conversation_data, log_before, out,
                   overwritten, budget, printed>>

\* answered anything else: the process ends
AnotherNo(p) ==
    /\ pc[p] = "another"
    /\ pc' = [pc EXCEPT ![p] = "done"]
    /\ out' = [out EXCEPT ![p] = "bye"]
    /\ conversation_id' = [conversation_id EXCEPT ![p] = ""]
    /\ messages' = [messages EXCEPT ![p] = <<>>]
    /\ metadata' = [metadata EXCEPT ![p] = NoMetadata]
    /\ UNCHANGED <<store, now, conversations, conversation_data, log_before, overwritten, budget, printed>>

Step(p) ==
    \/ Menu(p)
    \/ SelectExit(p)
    \/ SelectNotNumber(p)
    \/ SelectNew(p)
    \/ SelectResume(p)
    \/ SelectInvalid(p)
    \/ Exit(p)
    \/ History(p)
    \/ EmptyInput(p)
    \/ Turn(p)
    \/ InvokeFail(p)
    \/ InvokeOk(p)
    \/ InvokeOkOpenFails(p)
    \/ WriteOk(p)
    \/ WriteFail(p)
    \/ AnotherYes(p)
    \/ AnotherNo(p)

Next == Tick \/ \E p \in Procs : Step(p)

\* one instance of the program, on an empty conversations directory
EmptyStore == [id \in Ids |-> NoFile]
Init == InitWith({"p1"}, {EmptyStore})
Spec == Init /\ [][Next]_vars

\* two instances of the program on the same conversations directory
InitTwo == InitWith({"p2", "p3"}, {EmptyStore})
SpecTwo == InitTwo /\ [][Next]_vars

\* ------------------------------------------------------------ one session
\* chat_loop alone: a session just started on a new conversation
Session(p) ==
    \/ Exit(p)
    \/ History(p)
    \/ EmptyInput(p)
    \/ Turn(p)
    \/ InvokeFail(p)
    \/ InvokeOk(p)
    \/ InvokeOkOpenFails(p)
    \/ WriteOk(p)
    \/ WriteFail(p)

\* the Completion Client call returns, with a response or an exception
Returns(p) == InvokeFail(p) \/ InvokeOk(p) \/ InvokeOkOpenFails(p)
\* json.dump ends, by returning or by raising
Dumped(p) == WriteOk(p) \/ WriteFail(p)

InitSession ==
    /\ store = EmptyStore
    /\ now = 0
    /\ pc = [p \in Procs |-> IF p = "p1" THEN "input" ELSE "off"]
    /\ conversations = [p \in Procs |-> <<>>]
    /\ \E id \in generate_conversation_id :
          conversation_id = [p \in Procs |-> IF p = "p1" THEN id ELSE ""]
    /\ messages = [p \in Procs |-> <<>>]
    /\ metadata = [p \in Procs |->
          IF p = "p1" THEN Metadata(<<Token("created_at", isoformat(0))>>) ELSE NoMetadata]
    /\ conversation_data = [p \in Procs |-> <<>>]
    /\ log_before = [p \in Procs |-> <<>>]
    /\ out = [p \in Procs |-> IF p = "p1" THEN "new" ELSE ""]
    /\ overwritten = [p \in Procs |-> NotOpened]
    /\ budget = [turns |-> 0, saved |-> 0]
    /\ printed = [p \in Procs |-> NoMenu]
NextSession == Tick \/ \E p \in Procs : Session(p)
\* the call and the write in progress come to an end
SpecSession ==
    /\ InitSession /\ [][NextSession]_vars
    /\ \A p \in Procs : WF_vars(Returns(p)) /\ WF_vars(Dumped(p))

\* ---------------------------------------------------------------- chat.py
\* a dispatch that knows no 'clear'
ChatCommandNoClear(line) ==
    IF lower(strip(line)) \in {"exit", "quit"} THEN "exit"
    ELSE IF strip(line) = "" THEN "empty"
    ELSE "message"

\* chat.py, lines 41-56: what a line is taken for
ChatCommand(line) ==
    IF lower(strip(line)) \in {"exit", "quit"} THEN "exit"
    ELSE IF lower(strip(line)) = "clear" THEN "clear"
    ELSE IF strip(line) = "" THEN "empty"
    ELSE "message"
ChatTypes(p, c) == {line \in Typed(p) : ChatCommand(line) = c} # {}

\* input 'exit' or 'quit': the program ends
ChatQuit(p) ==
    /\ pc[p] = "chat"
    /\ ChatTypes(p, "exit")
    /\ pc' = [pc EXCEPT ![p] = "done"]
    /\ out' = [out EXCEPT ![p] = "bye"]
    /\ UNCHANGED <<store, now, conversations, conversation_id, messages, metadata,
                   conversation_data, log_before, overwritten, budget, printed>>

\* input 'clear': messages = []
ChatClear(p) ==
    /\ pc[p] = "chat"
    /\ ChatTypes(p, "clear")
    /\ messages' = [messages EXCEPT ![p] = <<>>]
    /\ out' = [out EXCEPT ![p] = "cleared"]
    /\ UNCHANGED <<store, now, pc, conversations, conversation_id, metadata,
                   conversation_data, log_before, overwritten, budget, printed>>

\* empty input
ChatEmpty(p) ==
    /\ pc[p] = "chat"
    /\ ChatTypes(p, "empty")
    /\ UNCHANGED vars

\* lines 58-75: append the user message and call the Completion Client
ChatSay(p, line) ==
    /\ pc[p] = "chat"
    /\ ChatCommand(line) = "message"
    /\ budget.turns < MaxTurns
    /\ messages' = [messages EXCEPT ![p] = Append(messages[p], UserMsg(strip(line)))]
    /\ log_before' = [log_before EXCEPT ![p] = messages[p]]
    /\ pc' = [pc EXCEPT ![p] = "chat_invoke"]
    /\ out' = [out EXCEPT ![p] = "claude"]
    /\ budget' = [budget EXCEPT !.turns = @ + 1]
    /\ UNCHANGED <<store, now, conversations, conversation_id, metadata,
                   conversation_data, overwritten, printed>>

ChatTurn(p) == \E line \in Typed(p) : ChatSay(p, line)

\* lines 41-62: one line of input, whatever it is
ChatReadLine(p, line) ==
    \/ ChatCommand(line) = "exit" /\ ChatQuit(p)
    \/ ChatCommand(line) = "clear" /\ ChatClear(p)
    \/ ChatCommand(line) = "empty" /\ ChatEmpty(p)
    \/ ChatSay(p, line)

\* lines 78-94: the call returns r and the assistant message joins the log
ChatInvokeOk(p) ==
    /\ pc[p] = "chat_invoke"
    /\ \E r \in Responses :
        messages' = [messages EXCEPT ![p] = Append(messages[p], AssistantMsg(r))]
    /\ pc' = [pc EXCEPT ![p] = "chat"]
    /\ out' = [out EXCEPT ![p] = "context"]
    /\ log_before' = [log_before EXCEPT ![p] = <<>>]
    /\ UNCHANGED <<store, now, conversations, conversation_id, metadata,
                   conversation_data, overwritten, budget, printed>>

\* lines 96-105: the call raises; the last message goes if it is the user's
ChatInvokeFail(p) ==
    /\ pc[p] = "chat_invoke"
    /\ messages' = [messages EXCEPT ![p] =
          IF messages[p] # <<>> /\ messages[p][Len(messages[p])].role = "user"
          THEN SubSeq(messages[p], 1, Len(messages[p]) - 1)
          ELSE messages[p]]
    /\ pc' = [pc EXCEPT ![p] = "chat"]
    /\ out' = [out EXCEPT ![p] = "error"]
    /\ log_before' = [log_before EXCEPT ![p] = <<>>]
    /\ UNCHANGED <<store, now, conversations, conversation_id, metadata,
                   conversation_data, overwritten, budget, printed>>

ChatStep(p) ==
    \/ ChatQuit(p)
    \/ ChatClear(p)
    \/ ChatEmpty(p)
    \/ ChatTurn(p)
    \/ ChatInvokeOk(p)
    \/ ChatInvokeFail(p)

\* the operator runs one of the two programs: chat_2.py, on an empty
\* conversations directory, or chat.py
InitPrograms ==
    \E program \in {"menu", "chat"} :
        InitAt([p \in Procs |-> IF p = "p1" THEN program ELSE "off"], {EmptyStore})
NextPrograms == Next \/ \E p \in Procs : ChatStep(p)
SpecPrograms == InitPrograms /\ [][NextPrograms]_vars

\* ------------------------------------------- a directory found as it is
\* What a file named conversation_<id>.json may hold when the program starts:
\* a record the program wrote, any part of one that a stopped write left, and
\* records that lost a field or whose last_updated is null.
WrittenRecords(id) ==
    {ConversationData(id, msgs, Metadata(<<Token("created_at", isoformat(0))>>), tm) :
        msgs \in {<<UserMsg("Hi"), AssistantMsg("Hello!")>>}, tm \in 0..MaxTime}
Without(d, k) == SelectSeq(d, LAMBDA item : item.key # k)
WithNull(d, k) == [i \in DOMAIN d |-> IF d[i].key = k THEN Token(k, JNull) ELSE d[i]]
FoundContents(id) ==
    LET d == ConversationData(id, <<UserMsg("Hi"), AssistantMsg("Hello!")>>,
                              Metadata(<<Token("created_at", isoformat(0))>>), 0)
    IN {json_dump(w) : w \in WrittenRecords(id)}
       \cup {SubSeq(json_dump(d), 1, k) : k \in 0..(Len(d) + 1)}
       \cup {json_dump(Without(d, "messages")), json_dump(Without(d, "message_count")),
             json_dump(WithNull(d, "last_updated"))}
FoundStores ==
    {st \in [Ids -> {NoFile} \cup {File(c) : c \in UNION {FoundContents(id) : id \in Ids}}] :
        \A id \in Ids : st[id].exists => st[id].content \in FoundContents(id)}

\* a conversation file is deleted from outside the program
Deleted ==
    /\ \E id \in Ids :
        /\ store[id].exists
        /\ store' = [store EXCEPT ![id] = NoFile]
    /\ UNCHANGED <<now, pc, conversations, conversation_id, messages, metadata,
                   conversation_data, log_before, out, overwritten, budget, printed>>

Selecting(p) ==
    \/ Menu(p)
    \/ SelectExit(p)
    \/ SelectNotNumber(p)
    \/ SelectNew(p)
    \/ SelectResume(p)
    \/ SelectInvalid(p)

\* one instance at its menu, on a directory found as it is
InitStore == InitWith({"p1"}, FoundStores)
NextStore == Deleted \/ \E p \in Procs : Selecting(p)
SpecStore == InitStore /\ [][NextStore]_vars

\* ------------------------------------------ a directory of many records
\* Six conversations saved by earlier runs, each in its first turn, at one of
\* three past instants; a1, b2 and c3 may be missing, d4, e5 and f6 are there
\* together or not at all.
CatalogIds == {"a1", "b2", "c3", "d4", "e5", "f6"}
PastInstants == {0 - 2, 0 - 1, 0}
SavedAt(id, tm) ==
    File(json_dump(ConversationData(id, <<UserMsg("Hi"), AssistantMsg("Hello!")>>,
                                    Metadata(<<Token("created_at", isoformat(tm))>>), tm)))
Older == {"a1", "b2", "c3"}
CatalogStores ==
    {[id \in CatalogIds |->
         IF id \in Older
         THEN IF when[id] = {} THEN NoFile ELSE SavedAt(id, CHOOSE tm \in when[id] : TRUE)
         ELSE IF rest THEN SavedAt(id, 0 - 1) ELSE NoFile] :
       when \in [Older -> {{}} \cup {{tm} : tm \in PastInstants}], rest \in BOOLEAN}

\* one instance at its menu, on such a directory
InitCatalog == InitWith({"p1"}, CatalogStores)
NextCatalog == \E p \in Procs : Selecting(p)
SpecCatalog == InitCatalog /\ [][NextCatalog]_vars

\* ================================================================ claims
\* the message log load_conversation would return for id now
Stored(id) == load_conversation(store, id)
StoredAfter(id) == load_conversation(store', id)

IsPrefix(a, b) == Len(a) <= Len(b) /\ SubSeq(b, 1, Len(a)) = a

\* user, assistant, user, assistant, ... in complete pairs
Alternates(msgs) ==
    /\ Len(msgs) % 2 = 0
    /\ \A i \in DOMAIN msgs :
        msgs[i].role = IF i % 2 = 1 THEN "user" ELSE "assistant"

\* C1: when the Completion Client call of a turn fails, the in-memory log is
\* again the log the turn began with, save_conversation is not entered and the
\* store is as it was.
C1_Rollback ==
    [][\A p \in Procs : InvokeFail(p) =>
          /\ messages'[p] = log_before[p]
          /\ Len(messages'[p]) = Len(messages[p]) - 1
          /\ store' = store
          /\ conversation_data'[p] = <<>>]_vars

\* C1 witness: a second turn failed in the Completion Client after a first
\* one was saved; the log and the record both hold the first exchange only.
C1_Witness ==
    \E p \in Procs :
        /\ pc[p] = "input" /\ out[p] = "error" /\ budget.turns = 2
        /\ Len(messages[p]) = 2
        /\ Stored(conversation_id[p]).kind = "ok"
        /\ Stored(conversation_id[p]).messages = messages[p]

\* C2: from an empty store, every record that load_conversation can read
\* holds user, assistant, user, assistant, ...: it never ends with a user
\* message and every assistant message follows a user message.
C2_NoDanglingUser ==
    \A id \in Ids : Stored(id).kind = "ok" => Alternates(Stored(id).messages)

\* C2 witness: a record holding two complete exchanges.
C2_Witness ==
    \E id \in Ids : Stored(id).kind = "ok" /\ Len(Stored(id).messages) = 4

\* C3: after a turn that ended in a failure, of the Completion Client or of
\* save_conversation, the in-memory log is the log of the persisted record of
\* the conversation, or empty when there is no record.
InStepAfter(p) ==
    LET r == StoredAfter(conversation_id[p]) IN
    \/ r.kind = "ok" /\ r.messages = messages'[p]
    \/ r.kind = "none" /\ messages'[p] = <<>>
C3_MemoryMatchesDisk ==
    [][\A p \in Procs :
          (pc[p] \in {"invoke", "write"} /\ pc'[p] = "input" /\ out'[p] = "error")
              => InStepAfter(p)]_vars

\* C4: a turn that succeeds on log L leaves the in-memory log L, user:u,
\* assistant:r and a record holding exactly that log, message_count len(L)+2.
C4_AtomicTurn ==
    [][\A p \in Procs : WriteOk(p) =>
          /\ \E u \in Inputs, r \in Responses :
                messages'[p] = log_before[p] \o <<UserMsg(u), AssistantMsg(r)>>
          /\ StoredAfter(conversation_id[p]).kind = "ok"
          /\ StoredAfter(conversation_id[p]).messages = messages'[p]
          /\ Get(StoredAfter(conversation_id[p]).data, "message_count")
                = JNum(Len(log_before[p]) + 2)]_vars

\* C4 witness: on an empty log, "Hi" answered "Hello!" is saved with
\* message_count 2.
C4_Witness ==
    \E p \in Procs :
        /\ out[p] = "saved"
        /\ messages[p] = <<UserMsg("Hi"), AssistantMsg("Hello!")>>
        /\ Stored(conversation_id[p]).kind = "ok"
        /\ Get(Stored(conversation_id[p]).data, "message_count") = JNum(2)

\* C5: once a save has ended, by succeeding, failing or stopping part-way,
\* the record of every id reads as a whole snapshot: load_conversation never
\* finds a truncated record.
C5_AllOrNothing ==
    (\A p \in Procs : pc[p] # "write")
        => \A id \in Ids : Stored(id).kind # "JSONDecodeError"

\* C6: a load_conversation right after a save_conversation returns the saved
\* id, created_at, the last_updated of that save and the saved messages.
C6_RoundTrip ==
    [][\A p \in Procs : WriteOk(p) =>
          LET r == StoredAfter(conversation_id[p]) IN
          /\ r.kind = "ok"
          /\ r.messages = messages[p]
          /\ Get(r.data, "conversation_id") = JStr(conversation_id[p])
          /\ Get(r.data, "created_at") = metadata[p].created_at
          /\ Get(r.data, "last_updated") = Get(conversation_data[p], "last_updated")
          /\ Get(r.data, "last_updated").n <= now]_vars

\* C6 witness: a saved conversation, created at one instant and last updated
\* at a later one, that loads as it is in memory.
C6_Witness ==
    \E p \in Procs :
        /\ out[p] = "saved"
        /\ Stored(conversation_id[p]).kind = "ok"
        /\ Stored(conversation_id[p]).messages = messages[p]
        /\ Len(messages[p]) = 4
        /\ Get(Stored(conversation_id[p]).data, "created_at").n
             < Get(Stored(conversation_id[p]).data, "last_updated").n

\* C7: 'start new conversation' never yields the id of a conversation that
\* is in the store.
C7_FreshId ==
    [][\A p \in Procs : SelectNew(p) => Stored(conversation_id'[p]).kind # "ok"]_vars

\* C8: when a save ends, the record it wrote over is still readable and its
\* message log is a prefix of the log the record holds now.
C8_NoDataLoss ==
    [][\A p \in Procs :
          (pc[p] = "write" /\ pc'[p] # "write" /\ overwritten[p].kind = "ok") =>
              /\ StoredAfter(conversation_id[p]).kind = "ok"
              /\ IsPrefix(overwritten[p].messages,
                          StoredAfter(conversation_id[p]).messages)]_vars

\* C9: the operator who selects a record that exists but does not parse, or
\* lacks the messages field, gets a failure that is neither the not-found
\* answer nor the answer to an invalid menu input, and no session starts;
\* load_conversation answers not-found exactly when there is no record.
C9_CorruptIsExplicit ==
    [][\A p \in Procs, n \in 1..MenuLimit : ResumeChoice(p, n) =>
          LET id == conversations[p][n].id.s IN
          /\ Stored(id).kind = "none" <=> ~store[id].exists
          /\ Stored(id).kind \in {"JSONDecodeError", "KeyError"} =>
                /\ out'[p] \notin {"invalid_choice", "invalid_number", "resumed"}
                /\ pc'[p] # "input"]_vars

\* a record in which nothing is missing or ill-typed
WholeRecord(file) ==
    /\ Listable(file)
    /\ HasKey(json_load(file.content), "messages")
    /\ Get(json_load(file.content), "created_at").t = "str"
    /\ Get(json_load(file.content), "last_updated").t = "str"

\* C10: whatever the directory holds and in whatever order it is read,
\* list_conversations returns a list, with the summary of every whole record
\* and no entry for a file that does not parse.
C10_ListingTolerant ==
    \A order \in Enumerations(store) :
        LET r == list_conversations(store, order) IN
        /\ r.ok
        /\ \A id \in Ids : WholeRecord(store[id]) =>
              \E i \in DOMAIN r.list : r.list[i] = Summary(json_load(store[id].content))
        /\ \A i \in DOMAIN r.list :
              json_load(store[r.list[i].id.s].content) # JSONDecodeError
        /\ Len(r.list) <= Cardinality({id \in Ids : store[id].exists})

\* where x stands in the sequence q
Pos(q, x) == CHOOSE i \in DOMAIN q : q[i] = x

\* C11: the list the menu is built from holds one summary for every stored
\* conversation, newest last_updated first, conversations with the same
\* last_updated in the order the directory gave them; the menu shows the
\* first five of it at most and counts the rest as remaining.
C11_RecencyOrder ==
    [][\A p \in Procs : (pc[p] = "menu" /\ pc'[p] = "select") =>
          LET L == conversations'[p]
              glob == printed'[p].glob
              shown == printed'[p].shown
          IN /\ Len(L) = Cardinality({id \in DOMAIN store : store[id].exists})
             /\ \A id \in DOMAIN store : store[id].exists =>
                   \E i \in DOMAIN L : L[i] = Summary(json_load(store[id].content))
             /\ \A i, j \in DOMAIN L : i < j =>
                   /\ L[i].updated.n >= L[j].updated.n
                   /\ L[i].updated.n = L[j].updated.n =>
                         Pos(glob, L[i].id.s) < Pos(glob, L[j].id.s)
             /\ Len(shown) = Min(5, Len(L))
             /\ \A i \in DOMAIN shown : shown[i] = L[i]
             /\ printed'[p].more = Len(L) - Len(shown)]_vars

\* C11 witness: six conversations at three instants on the menu, five shown
\* and one remaining; the second and third were updated at the same instant
\* and stand in the order the directory gave them, which has the older first.
C11_Witness ==
    \E p \in Procs :
        LET L == conversations[p] IN
        /\ pc[p] = "select" /\ Len(L) = 6
        /\ Len(printed[p].shown) = 5 /\ printed[p].more = 1
        /\ L[1].updated.n > L[2].updated.n
        /\ L[2].updated.n = L[3].updated.n
        /\ L[5].updated.n > L[6].updated.n
        /\ Pos(printed[p].glob, L[6].id.s) = 1
        /\ Pos(printed[p].glob, L[2].id.s) < Pos(printed[p].glob, L[3].id.s)

ExitWords == {"exit", "EXIT", " exit "}
QuitWords == {"quit"}

\* the session of p ends on this step, the log, the store and the record
\* being written as they were, the Completion Client not called
EndsSession(p) ==
    /\ pc'[p] = "another"
    /\ messages' = messages
    /\ store' = store
    /\ conversation_data' = conversation_data

\* C12 as stated: in chat_loop the input 'exit' and the input 'quit', in any
\* letter case, each end the session; nothing is appended to the log, the
\* Completion Client is not called and the record is not written.
C12_ExitOrQuitEnds ==
    [][\A p \in Procs, line \in ExitWords \cup QuitWords :
          ReadLine(p, line) => EndsSession(p)]_vars

\* C12 amended: in chat_loop the input 'exit', in any letter case and with
\* blanks around it, ends the session; nothing is appended to the log, the
\* Completion Client is not called and the record is not written.
C12_ExitEnds ==
    [][\A p \in Procs, line \in ExitWords :
          ReadLine(p, line) => EndsSession(p)]_vars

\* C12 witness: a session ended by 'exit' after a saved exchange; the log is
\* still the two messages of the record.
C12_Witness ==
    \E p \in Procs :
        /\ pc[p] = "another" /\ out[p] = "exit"
        /\ Len(messages[p]) = 2
        /\ Stored(conversation_id[p]).kind = "ok"
        /\ Stored(conversation_id[p]).messages = messages[p]

ClearWords == {"clear"}

\* the log of p is empty after this step, the store is as it was and the
\* Completion Client is not called
Clears(p) ==
    /\ messages'[p] = <<>>
    /\ pc'[p] \notin {"invoke", "chat_invoke"}
    /\ budget' = budget
    /\ store' = store

\* C13 as stated: in a session of either program the input 'clear' empties
\* the in-memory log, is not appended to it, calls no Completion Client and
\* leaves the persisted record as it was.
C13_ClearDiscards ==
    [][\A p \in Procs, line \in ClearWords :
          (ReadLine(p, line) \/ ChatReadLine(p, line)) => Clears(p)]_vars

\* C13 amended: in a session of chat.py the input 'clear' empties the
\* in-memory log, is not appended to it, calls no Completion Client and
\* leaves every persisted record as it was.
C13_ChatClearDiscards ==
    [][\A p \in Procs, line \in ClearWords :
          ChatReadLine(p, line) => (Clears(p) /\ pc'[p] = "chat")]_vars

\* C13 witness: a chat.py session whose log was emptied by 'clear' after a
\* turn.
C13_Witness ==
    \E p \in Procs :
        /\ pc[p] = "chat" /\ out[p] = "cleared"
        /\ messages[p] = <<>> /\ budget.turns >= 1

\* a message with a role, a content string and a timestamp
Stamped(m) ==
    /\ m.role \in {"user", "assistant"}
    /\ m.content \in STRING
    /\ "timestamp" \in DOMAIN m

\* C14: every message of a session's log and every message of a persisted
\* record has a role in {user, assistant}, a content string and a timestamp.
C14_MessageShape ==
    /\ \A p \in Procs : \A i \in DOMAIN messages[p] : Stamped(messages[p][i])
    /\ \A id \in DOMAIN store : Stored(id).kind = "ok" =>
          \A i \in DOMAIN Stored(id).messages : Stamped(Stored(id).messages[i])

\* C15: a session waiting for input holds complete user/assistant pairs; while
\* the Completion Client is being called the log is the log the turn began
\* with, itself complete pairs, followed by the one new user message.
C15_InMemoryAlternation ==
    \A p \in Procs :
        /\ pc[p] \in {"input", "chat", "write", "another"} => Alternates(messages[p])
        /\ pc[p] \in {"invoke", "chat_invoke"} =>
              /\ Alternates(log_before[p])
              /\ Len(messages[p]) = Len(log_before[p]) + 1
              /\ SubSeq(messages[p], 1, Len(log_before[p])) = log_before[p]
              /\ messages[p][Len(messages[p])].role = "user"

\* C15 witness: the second turn of a conversation is in flight; the log is
\* the stored exchange followed by the new user message.
C15_Witness ==
    \E p \in Procs :
        /\ pc[p] = "invoke" /\ Len(messages[p]) = 3
        /\ Stored(conversation_id[p]).kind = "ok"
        /\ Stored(conversation_id[p]).messages = log_before[p]

\* C16: the store changes only while a turn whose Completion Client call
\* returned a response is saving; exit, history, empty input, the appending
\* of the user message and a turn whose call fails leave the store as it
\* was, and history and empty input also leave the log as it was and call
\* no Completion Client.
C16_OnlySuccessPersists ==
    [][/\ store' # store => \E p \in Procs :
              \/ /\ pc[p] = "invoke" /\ pc'[p] = "write"
                 /\ \E r \in Responses : messages'[p] = Append(messages[p], AssistantMsg(r))
                 /\ Len(messages'[p]) = Len(log_before[p]) + 2
              \/ pc[p] = "write"
       /\ \A p \in Procs :
              (Exit(p) \/ History(p) \/ EmptyInput(p) \/ Turn(p) \/ InvokeFail(p))
                  => store' = store
       /\ \A p \in Procs :
              (History(p) \/ EmptyInput(p)) =>
                  /\ messages' = messages
                  /\ pc' = pc
                  /\ budget' = budget]_vars

\* C16 witness: 'history' was read in a session whose first exchange is
\* saved; the log and the record are that exchange.
C16_Witness ==
    \E p \in Procs :
        /\ pc[p] = "input" /\ out[p] = "history"
        /\ Len(messages[p]) = 2
        /\ Stored(conversation_id[p]).kind = "ok"
        /\ Stored(conversation_id[p]).messages = messages[p]

\* C17: a session whose Completion Client call is in progress, or whose save
\* is, is waiting for input again later on; the step that reports a failure
\* leaves the session of the same conversation at its prompt.
C17_NeverFatal ==
    /\ \A p \in Procs : (pc[p] \in {"invoke", "write"}) ~> (pc[p] = "input")
    /\ [][\A p \in Procs :
             (pc[p] \in {"invoke", "write"} /\ out'[p] = "error") =>
                 /\ pc'[p] = "input"
                 /\ conversation_id'[p] = conversation_id[p]]_vars

\* C17 witness: in one session two turns were begun and the log holds one
\* exchange, just saved: the first turn failed and the second succeeded.
C17_Witness ==
    \E p \in Procs :
        /\ pc[p] = "input" /\ out[p] = "saved"
        /\ budget.turns = 2 /\ Len(messages[p]) = 2
        /\ Stored(conversation_id[p]).kind = "ok"
        /\ Stored(conversation_id[p]).messages = messages[p]

LastUpdated(r) == Get(r.data, "last_updated").n

\* C18: while the clock does not go back, the last_updated of a record is
\* never later than the clock, a save stamps its record with the clock's
\* value as it builds it, the write puts that stamp in the store, and the
\* stamp is not earlier than that of the snapshot it replaces.
C18_LastUpdatedMonotone ==
    [][/\ now' >= now
       /\ \A id \in Ids : StoredAfter(id).kind = "ok" => LastUpdated(StoredAfter(id)) <= now'
       /\ \A id \in Ids : (Stored(id).kind = "ok" /\ StoredAfter(id).kind = "ok") =>
             LastUpdated(Stored(id)) <= LastUpdated(StoredAfter(id))
       /\ \A p \in Procs : InvokeOk(p) =>
             /\ Get(conversation_data'[p], "last_updated") = isoformat(now)
             /\ \A id \in Ids : Stored(id).kind = "ok" =>
                   LastUpdated(Stored(id)) <= Get(conversation_data'[p], "last_updated").n
       /\ \A p \in Procs : WriteOk(p) =>
             /\ Get(StoredAfter(conversation_id[p]).data, "last_updated")
                   = Get(conversation_data[p], "last_updated")
             /\ overwritten[p].kind = "ok" =>
                   LastUpdated(overwritten[p]) <= LastUpdated(StoredAfter(conversation_id[p]))]_vars

\* C18 witness: a record of two exchanges whose second save, at a later
\* instant than the first, has just been written.
C18_Witness ==
    \E p \in Procs :
        /\ out[p] = "saved" /\ now > 0
        /\ Stored(conversation_id[p]).kind = "ok"
        /\ Get(Stored(conversation_id[p]).data, "message_count") = JNum(4)
        /\ LastUpdated(Stored(conversation_id[p])) = now

\* C19: choosing 'start new conversation' leaves the store as it was, and as
\* long as no turn has been saved, a session that has ended, after any number
\* of failed turns, leaves the store empty as it found it, and the catalog
\* with it.
C19_NewNotStored ==
    /\ [][\A p \in Procs : SelectNew(p) => store' = store]_vars
    /\ [](\A p \in Procs : (pc[p] = "another" /\ budget.saved = 0) =>
             /\ store = EmptyStore
             /\ \A order \in Enumerations(store) :
                   list_conversations(store, order) = ListResult(TRUE, <<>>))

\* C20: with n conversations listed, the choice 0 exits; n+1 starts a new
\* conversation whose id no stored conversation has, with an empty log; i
\* from 1 to min(5, n) resumes the i-th most recently updated conversation
\* with the log stored for it, or, if its record is gone, starts no session
\* and asks again; any other number is rejected and asked again.
C20_ChoiceResolution ==
    [][\A p \in Procs, text \in Choices : (~NotNumber(text) /\ Choice(p, text)) =>
          LET k == int(text)
              L == conversations[p]
              n == Len(conversations[p])
          IN /\ text = "0" => pc'[p] = "done"
             /\ k = n + 1 =>
                   /\ pc'[p] = "input"
                   /\ messages'[p] = <<>>
                   /\ ~store[conversation_id'[p]].exists
             /\ (1 <= k /\ k <= Min(5, n)) =>
                   /\ \A j \in DOMAIN L :
                         /\ j < k => L[j].updated.n >= L[k].updated.n
                         /\ j > k => L[j].updated.n <= L[k].updated.n
                   /\ IF store[L[k].id.s].exists
                      THEN /\ pc'[p] = "input"
                           /\ conversation_id'[p] = L[k].id.s
                           /\ Stored(L[k].id.s).kind = "ok"
                           /\ messages'[p] = Stored(L[k].id.s).messages
                      ELSE /\ pc'[p] = "select"
                           /\ out'[p] = "invalid_choice"
                           /\ conversation_id'[p] = conversation_id[p]
             /\ (k # 0 /\ k # n + 1 /\ ~(1 <= k /\ k <= Min(5, n))) =>
                   /\ pc'[p] = "select"
                   /\ out'[p] = "invalid_choice"]_vars

====
